---- MODULE Spec2Model ----
(***************************************************************************)
(* Model of the session/poll/accept engine of umzug-fast-bot               *)
(* (src/src/automator.js, class UmzugAutomator) as wired by                *)
(* src/src/index.js: one main task (initialize, startWatcher), the watcher *)
(* loop, the signal handlers (cleanup -> stopWatcher) and the remote       *)
(* portal as environment (session validity, fetch outcomes, listings).     *)
(*                                                                         *)
(* Not modelled: stats.lastTick (a wall-clock stamp), log output, the      *)
(* overlay dismissal and request blocking (no effect on the state below).  *)
(***************************************************************************)
EXTENDS Integers, Sequences, FiniteSets, TLC

\* ---------------------------------------------------------------- bounds
\* longest listing snapshot the portal serves
MaxEntries == 2
\* most calls of loop() in one run
MaxLoops == 2
\* cap on each cumulative counter of stats (the portal stops serving
\* countable events once a counter would pass it)
MaxTotal == 2

\* values of cfg.maxPerTick: Number(process.env.MAX_PER_TICK || 3) is any
\* number the environment gives; 3 is the default
MaxPerTickValues == {-1, 0, 1, 3}

\* values of cfg.keepAliveMin: Number(process.env.KEEP_ALIVE_MIN || 4) is any
\* number the environment gives ("0" is a non-empty string, so 0 stays 0)
KeepAliveMinValues == {-1, 0, 1, 2, 3, 4, 7}
\* the default of cfg.keepAliveMin
DefaultKeepAliveMin == 4

Max(a, b) == IF a >= b THEN a ELSE b
Min(a, b) == IF a <= b THEN a ELSE b

\* ------------------------------------------------------- listing entries
\* A div.entry of the listing: its forms in document order (each with the
\* controls it holds), the digits of a "#1234" in its text ("" if none) and
\* the text of span.date.location ("" if none).
AcceptForm == [accept |-> TRUE, cancel |-> FALSE]
CancelForm == [accept |-> FALSE, cancel |-> TRUE]
BothForm == [accept |-> TRUE, cancel |-> TRUE]

EntryPool ==
  { [forms |-> <<AcceptForm>>, id |-> "1001", loc |-> "Berlin"],
    [forms |-> <<AcceptForm>>, id |-> "", loc |-> "Berlin"],
    [forms |-> <<AcceptForm>>, id |-> "", loc |-> ""],
    [forms |-> <<BothForm>>, id |-> "1002", loc |-> "Berlin"],
    [forms |-> <<AcceptForm, CancelForm>>, id |-> "1001", loc |-> "Hamburg"],
    [forms |-> <<>>, id |-> "1002", loc |-> ""] }

Snapshots == UNION { [1..n -> EntryPool] : n \in 0..MaxEntries }

\* keyOf(el): "#<id>" when the text holds an id, else the location text
keyOf(el) == IF el.id # "" THEN "#" \o el.id ELSE el.loc

\* the entry holds a cancel control anywhere (in any of its forms)
ContainsCancel(el) == \E i \in 1..Len(el.forms) : el.forms[i].cancel

\* the filter of the tick: e.querySelector("form") is the first form
EntryFilterNoCancelGuard(e) ==
  /\ Len(e.forms) > 0
  /\ e.forms[1].accept

EntryFilter(e) ==
  /\ Len(e.forms) > 0
  /\ ~e.forms[1].cancel
  /\ e.forms[1].accept

EntriesOf(snapshot) == SelectSeq(snapshot, EntryFilter)

\* newbies without the test that the key is not empty
NewbiesKeepingEmptyKeys(entries, seen) ==
  LET unseen(el) == keyOf(el) \notin seen
      picked == SelectSeq(entries, unseen)
  IN [i \in 1..Len(picked) |-> [key |-> keyOf(picked[i]), el |-> picked[i]]]

\* newbies: entries with a non-empty key not in the seen set, in order
Newbies(entries, seen) ==
  LET unseen(el) == keyOf(el) # "" /\ keyOf(el) \notin seen
      picked == SelectSeq(entries, unseen)
  IN [i \in 1..Len(picked) |-> [key |-> keyOf(picked[i]), el |-> picked[i]]]

\* Array.prototype.slice(0, n): a negative n counts from the end
SliceNoLimit(s, n) == s

SliceTo(s, n) ==
  LET end == IF n < 0 THEN Max(Len(s) + n, 0) ELSE Min(n, Len(s))
  IN SubSeq(s, 1, end)

\* _startKeepAlive: Math.max(2, Number(this.cfg.keepAliveMin || 4)) * 60 * 1000;
\* a || b is b when a is falsy, and 0 is falsy
KeepAliveEveryNoDefault(keepAliveMin) == Max(2, keepAliveMin) * 60 * 1000

KeepAliveEvery(keepAliveMin) ==
  Max(2, IF keepAliveMin = 0 THEN 4 ELSE keepAliveMin) * 60 * 1000

\* ------------------------------------------------------------- variables
VARIABLES
  cfg,             \* the configuration read by index.js
  mainPc,          \* the main task of index.js: boot, initialized, serving, exit0, exit1
  ready,           \* this.ready
  isLoggedIn,      \* this.isLoggedIn
  keepAliveTimer,  \* this.keepAliveTimer is set
  watcherRunning,  \* this._watcherRunning
  watcherPromise,  \* this._watcherPromise: null, pending, resolved, rejected
  stats,           \* this.stats (without lastTick)
  page,            \* the browser page: its URL and whether a username field shows
  seenKeys,        \* window.__seenKeys of the page's current document
  sessionValid,    \* the portal accepts the session cookie
  loopPc,          \* where the watcher loop is
  tick,            \* locals of the in-page tick function
  result,          \* the value page.evaluate returned, until the loop has handled it
  fetchStatus,     \* how the listing fetch of the current tick ended
  pendingErr,      \* an exception thrown by the catch block, held by finally
  stopAsked,       \* a stopWatcher() call is awaiting the loop's promise
  requests,        \* per entry, the number of accept requests issued for it
  events,          \* what the last step met: "login" (it ran _login), "fault"
                   \* (a fetch or a navigation of it failed in transport)
  keepAliveEvery,  \* the period in ms of the interval _startKeepAlive set (0: none)
  scanned,         \* the filtered entries of the snapshot the current tick took,
                   \* until the iteration is over
  skipped,         \* keys the last finished tick marked seen without attempting
                   \* them, until the next tick starts
  loops,           \* the calls of loop() made so far, each with its position
  promiseLoop,     \* the call of loop() whose promise _watcherPromise holds (0: none)
  stops,           \* the loops whose promise a stopWatcher() call in progress
                   \* awaits (0: the call awaits null)
  probe,           \* a keep-alive probe (page.evaluate of the timer callback) is in flight
  inFlight         \* positions in the batch whose accept request is sent and not
                   \* yet settled

vars == <<cfg, mainPc, ready, isLoggedIn, keepAliveTimer, watcherRunning,
          watcherPromise, stats, page, seenKeys, sessionValid, loopPc, tick,
          result, fetchStatus, pendingErr, stopAsked,
          requests, events, keepAliveEvery, scanned, skipped, loops, promiseLoop,
          stops, probe, inFlight>>

\* the state of the finer-grained views below (calls of the public methods
\* in any order, page operations and requests in flight)
fineVars == <<scanned, skipped, loops, promiseLoop, stops, probe, inFlight>>

\* ------------------------------------------------- the page and the portal
\* A "world" is the part of the state a page operation reads and writes,
\* with the outcome of the call: thrown (it raised) and ret (what it
\* returned). Each operation maps a world to the set of worlds it can end in.
Bind(W, Op(_)) == UNION { Op(w) : w \in W }

PageAt(u, uf) == [url |-> u, userField |-> uf]

\* a transport failure met on the way
Fault(w) == [w EXCEPT !.events = @ \cup {"fault"}]

\* A document load that succeeded: the portal redirects a protected URL to
\* /login when the session is not valid; the new document has a fresh
\* window, so window.__seenKeys is gone.
Loaded(w, target) ==
  LET dest == IF target \in {"daten", "jobs"} /\ ~w.valid THEN "login" ELSE target
  IN { [w EXCEPT !.page = PageAt(dest, uf), !.seen = {}] :
         uf \in (IF dest = "login" THEN {TRUE}
                 ELSE IF dest = "root" /\ ~w.valid THEN BOOLEAN ELSE {FALSE}) }

\* page.goto(url): loads, or raises (timeout, network)
Goto(w, target) ==
  IF w.thrown THEN {w}
  ELSE Loaded(w, target) \cup {Fault([w EXCEPT !.thrown = TRUE])}

\* page.reload().catch(() => {}): loads, or fails silently
Reload(w) ==
  IF w.thrown THEN {w}
  ELSE Loaded(w, w.page.url) \cup {Fault(w)}

\* _login: goto /login, fill, submit; raises unless the page moved off /login
Login(w) ==
  LET Submit(x) ==
        IF x.thrown THEN {x}
        ELSE {[x EXCEPT !.thrown = TRUE]}
             \cup { [x EXCEPT !.page = PageAt(u, FALSE), !.seen = {},
                              !.valid = TRUE, !.loggedIn = TRUE] :
                      u \in {"daten", "jobs"} }
  IN IF w.thrown THEN {w}
     ELSE Bind(Goto([w EXCEPT !.events = @ \cup {"login"}], "login"), Submit)

\* _ensureAuthenticated: log in when at /login or a username field shows
EnsureAuthenticated(w) ==
  IF w.thrown THEN {w}
  ELSE IF w.page.url = "login" \/ w.page.userField THEN Login(w)
  ELSE {w}

\* _softRefreshJobsInPage: ret is rows.length > 0; the evaluate raises when
\* the fetch does; an expired session yields the login page, hence no rows
SoftRefreshJobsInPage(w) ==
  IF w.thrown THEN {w}
  ELSE {[w EXCEPT !.ret = FALSE], Fault([w EXCEPT !.thrown = TRUE])}
       \cup (IF w.valid THEN {[w EXCEPT !.ret = TRUE]} ELSE {})

\* _hasJobsInLiveDOM(trySoft): the counts of accept controls, locations and
\* entries in the live DOM (the listing page may show some or none), else the
\* soft refresh with its exception swallowed
HasJobsInLiveDOM(w, trySoft) ==
  IF w.thrown THEN {w}
  ELSE (IF w.page.url = "jobs" THEN {[w EXCEPT !.ret = TRUE]} ELSE {})
       \cup (IF trySoft
               THEN { [x EXCEPT !.ret = (~x.thrown /\ x.ret), !.thrown = FALSE] :
                        x \in SoftRefreshJobsInPage(w) }
               ELSE {[w EXCEPT !.ret = FALSE]})

HasJobsSoft(w) == HasJobsInLiveDOM(w, TRUE)

\* _openMeineJobsViaMeineDaten
OpenMeineJobsViaMeineDaten(w) ==
  LET ClickOrGoto(x) ==
        IF x.thrown THEN {x}
        ELSE Loaded(x, "jobs") \cup {Fault(x)} \cup {Fault([x EXCEPT !.thrown = TRUE])}
      Retry(x) ==
        IF x.thrown \/ x.ret THEN {x}
        ELSE Bind(Bind(Reload(x), EnsureAuthenticated), HasJobsSoft)
      Navigate(x) ==
        IF x.thrown \/ x.ret THEN {x}
        ELSE Bind(Bind(Bind(Bind(Bind(Goto(x, "daten"), EnsureAuthenticated),
                                 ClickOrGoto), EnsureAuthenticated),
                       HasJobsSoft), Retry)
      early == IF w.page.url = "jobs" THEN HasJobsSoft(w)
               ELSE {[w EXCEPT !.ret = FALSE]}
  IN IF w.thrown THEN {w} ELSE Bind(early, Navigate)

\* _refreshMeineJobs
RefreshMeineJobs(w) ==
  LET Recover(x) ==
        IF ~x.thrown THEN {x}
        ELSE Bind(Bind(Reload([x EXCEPT !.thrown = FALSE]), EnsureAuthenticated),
                  HasJobsSoft)
  IN IF w.page.url # "jobs" THEN OpenMeineJobsViaMeineDaten(w)
     ELSE Bind(SoftRefreshJobsInPage(w), Recover)

\* the world the next page operation starts from
Here == [page |-> page, seen |-> seenKeys, valid |-> sessionValid,
         loggedIn |-> isLoggedIn, events |-> {}, thrown |-> FALSE,
         ret |-> FALSE]

\* the state takes over the world a page operation ended in
Adopt(w) ==
  /\ page' = w.page
  /\ seenKeys' = w.seen
  /\ sessionValid' = w.valid
  /\ isLoggedIn' = w.loggedIn
  /\ events' = w.events

\* ------------------------------------------------------------ the tick
NoResult == [kind |-> "none"]
TickResult(a, t, e, k) ==
  [kind |-> "counts", accepted |-> a, tried |-> t, errors |-> e, lastAcceptKey |-> k]
\* return { accepted: 0, tried: 0, errors: 1 } of a listing fetch that is not ok
BadStatusResult == [kind |-> "counts", accepted |-> 0, tried |-> 0, errors |-> 1,
                    lastAcceptKey |-> "null"]
\* return { accepted: 0, tried: 0, errors: 0, needLogin: true }
NeedLoginResult == [kind |-> "needLogin", accepted |-> 0, tried |-> 0, errors |-> 0,
                    lastAcceptKey |-> "null"]

\* "mark everything we looked at this tick": the keys that loop adds
MarkAll(entries) ==
  { keyOf(entries[i]) : i \in { j \in 1..Len(entries) : keyOf(entries[j]) # "" } }

\* marks: the keys of the filtered listing, which the tick marks seen at its
\* end; guarded: the cancel guard dropped an entry that has an accept control;
\* batch, idx: the for loop over the work batch
IdleTick == [marks |-> {}, guarded |-> FALSE, batch |-> <<>>, idx |-> 1,
             accepted |-> 0, tried |-> 0, errors |-> 0, lastAcceptKey |-> "null"]

\* the cancel guard fires on an entry the accept test alone would keep
Guarded(snapshot) ==
  \E i \in 1..Len(snapshot) :
    /\ Len(snapshot[i].forms) > 0
    /\ snapshot[i].forms[1].cancel
    /\ snapshot[i].forms[1].accept

\* the listing after DOMParser and the filter
ParsedListing(snapshot) ==
  [entries |-> EntriesOf(snapshot), guarded |-> Guarded(snapshot)]

ParsedListings == { ParsedListing(snapshot) : snapshot \in Snapshots }

\* the locals after the listing was parsed, filtered and cut to the batch
StartTick(listing, seen, maxPerTick) ==
  [IdleTick EXCEPT !.marks = MarkAll(listing.entries),
                   !.guarded = listing.guarded,
                   !.batch = SliceTo(Newbies(listing.entries, seen), maxPerTick)]

\* the entry has a form with an accept control, so a request is issued for it
Submits(el) == Len(el.forms) > 0 /\ el.forms[1].accept

\* the submit loop with a catch block that does not count the transport error
SubmitOneSilentReject(t, outcome) ==
  LET item == t.batch[t.idx]
      next == [t EXCEPT !.idx = @ + 1, !.tried = @ + 1]
  IN IF ~(Len(item.el.forms) > 0 /\ item.el.forms[1].accept)
       THEN [next EXCEPT !.errors = @ + 1]
     ELSE IF outcome = "ok"
       THEN [next EXCEPT !.accepted = @ + 1, !.lastAcceptKey = item.key]
     ELSE IF outcome = "notok" THEN [next EXCEPT !.errors = @ + 1]
     ELSE next

\* one pass of the submit loop over batch[idx]; outcome is how the accept
\* request ended: ok, notok (status not ok) or reject (transport error)
SubmitOne(t, outcome) ==
  LET item == t.batch[t.idx]
      next == [t EXCEPT !.idx = @ + 1, !.tried = @ + 1]
  IN IF ~Submits(item.el) THEN [next EXCEPT !.errors = @ + 1]
     ELSE IF outcome = "ok"
       THEN [next EXCEPT !.accepted = @ + 1, !.lastAcceptKey = item.key]
     ELSE [next EXCEPT !.errors = @ + 1]

\* the folding of a tick result into this.stats
FoldDecreasing(st, r) ==
  [st EXCEPT !.accepted = @ + r.accepted,
             !.tried = @ + r.tried,
             !.errors = @ - r.errors,
             !.lastAcceptKey = IF r.lastAcceptKey # "null" THEN r.lastAcceptKey ELSE @]

Fold(st, r) ==
  [st EXCEPT !.accepted = @ + r.accepted,
             !.tried = @ + r.tried,
             !.errors = @ + r.errors,
             !.lastAcceptKey = IF r.lastAcceptKey # "null" THEN r.lastAcceptKey ELSE @]

\* if (result?.needLogin) ... else if (result) { fold }
FoldResultCountingLogin(st, r) ==
  IF r.kind = "needLogin" THEN [st EXCEPT !.errors = @ + 1] ELSE Fold(st, r)

FoldResult(st, r) == IF r.kind = "needLogin" THEN st ELSE Fold(st, r)

\* --------------------------------------------------------------- Init
\* the fields after the constructor, the browser not yet launched
Constructed ==
  /\ mainPc = "boot"
  /\ ready = FALSE
  /\ isLoggedIn = FALSE
  /\ keepAliveTimer = FALSE
  /\ watcherRunning = FALSE
  /\ watcherPromise = "null"
  /\ stats = [accepted |-> 0, tried |-> 0, errors |-> 0, lastError |-> "null",
              lastAcceptKey |-> "null"]
  /\ page = PageAt("blank", FALSE)
  /\ seenKeys = {}
  /\ sessionValid \in BOOLEAN
  /\ loopPc = "none"
  /\ tick = IdleTick
  /\ result = NoResult
  /\ fetchStatus = "none"
  /\ pendingErr = FALSE
  /\ stopAsked = FALSE
  /\ requests = [e \in EntryPool |-> 0]
  /\ events = {}
  /\ keepAliveEvery = 0
  /\ scanned = <<>>
  /\ skipped = {}
  /\ loops = <<>>
  /\ promiseLoop = 0
  /\ stops = {}
  /\ probe = FALSE
  /\ inFlight = {}

Init ==
  /\ cfg \in [maxPerTick : MaxPerTickValues, hasCredentials : BOOLEAN,
              keepAliveMin : {DefaultKeepAliveMin}]
  /\ Constructed

Alive == mainPc \notin {"exit0", "exit1"}
LoopActive == loopPc \notin {"none", "exited", "rejected"}

botVars == <<ready, isLoggedIn, keepAliveTimer>>
loopVars == <<loopPc, tick, result, fetchStatus, pendingErr>>
stopVars == <<stopAsked>>

\* ------------------------------------------------------- main (index.js)
\* initialize(): credentials, launch, goto "/", _ensureAuthenticated,
\* _openMeineJobsViaMeineDaten, then ready; main exits with 1 when it raises
InitializeOutcomes ==
  IF ~cfg.hasCredentials THEN {[Here EXCEPT !.thrown = TRUE]}
  ELSE { [w EXCEPT !.thrown = w.thrown \/ ~w.ret] :
           w \in Bind(Bind(Goto(Here, "root"), EnsureAuthenticated),
                      OpenMeineJobsViaMeineDaten) }

\* initialize() setting ready before its checks have passed
InitializeReadyEarly ==
  /\ mainPc = "boot"
  /\ \E w \in InitializeOutcomes :
       /\ page' = w.page
       /\ seenKeys' = w.seen
       /\ sessionValid' = w.valid
       /\ events' = w.events
       /\ ready' = TRUE
       /\ IF w.thrown
            THEN /\ mainPc' = "exit1"
                 /\ isLoggedIn' = w.loggedIn
                 /\ UNCHANGED <<keepAliveTimer, keepAliveEvery>>
            ELSE /\ mainPc' = "initialized"
                 /\ isLoggedIn' = TRUE
                 /\ keepAliveTimer' = TRUE
                 /\ keepAliveEvery' = KeepAliveEvery(cfg.keepAliveMin)
  /\ UNCHANGED <<cfg, fineVars, watcherRunning, watcherPromise, stats, loopVars,
                 stopVars, requests>>

Initialize ==
  /\ mainPc = "boot"
  /\ \E w \in InitializeOutcomes :
       /\ page' = w.page
       /\ seenKeys' = w.seen
       /\ sessionValid' = w.valid
       /\ events' = w.events
       /\ IF w.thrown
            THEN /\ mainPc' = "exit1"
                 /\ isLoggedIn' = w.loggedIn
                 /\ UNCHANGED <<ready, keepAliveTimer, keepAliveEvery>>
            ELSE /\ mainPc' = "initialized"
                 /\ ready' = TRUE
                 /\ isLoggedIn' = TRUE
                 /\ keepAliveTimer' = TRUE
                 /\ keepAliveEvery' = KeepAliveEvery(cfg.keepAliveMin)
  /\ UNCHANGED <<cfg, fineVars, watcherRunning, watcherPromise, stats, loopVars, stopVars, requests>>

\* startWatcher(), called once by main after initialize()
StartWatcher ==
  /\ mainPc = "initialized"
  /\ mainPc' = "serving"
  /\ IF watcherRunning
       THEN UNCHANGED <<watcherRunning, watcherPromise, loopPc>>
       ELSE /\ watcherRunning' = TRUE
            /\ watcherPromise' = "pending"
            /\ loopPc' = "top"
  /\ events' = {}
  /\ UNCHANGED <<cfg, fineVars, keepAliveEvery, botVars, stats, page, seenKeys, sessionValid, tick, result,
                 fetchStatus, pendingErr, stopVars, requests>>

\* ------------------------------------------------------ the watcher loop
\* while (this._watcherRunning)
LoopGoesOnRegardless == TRUE

LoopGoesOn == watcherRunning

LoopTop ==
  /\ Alive
  /\ loopPc = "top"
  /\ IF LoopGoesOn
       THEN /\ loopPc' = "refresh"
            /\ UNCHANGED watcherPromise
       ELSE /\ loopPc' = "exited"
            /\ watcherPromise' = "resolved"
  /\ events' = {}
  /\ UNCHANGED <<cfg, fineVars, keepAliveEvery, mainPc, botVars, watcherRunning, stats, page, seenKeys,
                 sessionValid, tick, result, fetchStatus, pendingErr, stopVars,
                 requests>>

\* const ok = await this._refreshMeineJobs()
Refresh ==
  /\ Alive
  /\ loopPc = "refresh"
  /\ \E w \in RefreshMeineJobs(Here) :
       /\ Adopt(w)
       /\ loopPc' = IF w.thrown THEN "catch"
                    ELSE IF w.ret THEN "tick" ELSE "sleepNotReady"
  /\ UNCHANGED <<cfg, fineVars, keepAliveEvery, mainPc, ready, keepAliveTimer, watcherRunning, watcherPromise,
                 stats, tick, result, fetchStatus, pendingErr, stopVars, requests>>

\* if (!ok) { await this._sleep(this.cfg.pollMs); continue; }
SleepNotReady ==
  /\ Alive
  /\ loopPc = "sleepNotReady"
  /\ loopPc' = "sleep"
  /\ events' = {}
  /\ UNCHANGED <<cfg, fineVars, keepAliveEvery, mainPc, botVars, watcherRunning, watcherPromise, stats, page,
                 seenKeys, sessionValid, tick, result, fetchStatus, pendingErr,
                 stopVars, requests>>

\* the in-page tick up to its first await: the listing fetch and what follows
\* it synchronously (status check, login-bounce check, parse, filter, batch)
TickFetch ==
  /\ Alive
  /\ loopPc = "tick"
  /\ \/ /\ stats.errors < MaxTotal
        /\ fetchStatus' = "badstatus"
        /\ stats' = FoldResult(stats, BadStatusResult)
        /\ loopPc' = "sleep"
        /\ UNCHANGED <<result, tick>>
     \/ /\ fetchStatus' = "neterr"
        /\ loopPc' = "catch"
        /\ UNCHANGED <<result, stats, tick>>
     \/ /\ ~sessionValid
        /\ fetchStatus' = "login"
        /\ result' = NeedLoginResult
        /\ loopPc' = "needLogin"
        /\ UNCHANGED <<stats, tick>>
     \/ /\ sessionValid
        /\ \E listing \in ParsedListings :
             LET t == StartTick(listing, seenKeys, cfg.maxPerTick)
             IN /\ stats.tried + Len(t.batch) <= MaxTotal
                /\ stats.errors + Len(t.batch) <= MaxTotal
                /\ tick' = t
        /\ fetchStatus' = "ok"
        /\ loopPc' = "submit"
        /\ UNCHANGED <<result, stats>>
  /\ events' = IF fetchStatus' = "neterr" THEN {"fault"} ELSE {}
  /\ UNCHANGED <<cfg, fineVars, keepAliveEvery, mainPc, botVars, watcherRunning, watcherPromise, page, seenKeys,
                 sessionValid, pendingErr, stopVars, requests>>

\* one pass of the for loop over the batch: the accept request and its finally
Submit ==
  /\ Alive
  /\ loopPc = "submit"
  /\ tick.idx <= Len(tick.batch)
  /\ \E outcome \in {"ok", "notok", "reject"} :
       /\ tick' = SubmitOne(tick, outcome)
       /\ events' = IF outcome = "reject" THEN {"fault"} ELSE {}
  /\ seenKeys' = seenKeys \cup {tick.batch[tick.idx].key}
  /\ requests' = IF Submits(tick.batch[tick.idx].el)
                   THEN [requests EXCEPT ![tick.batch[tick.idx].el] = @ + 1]
                   ELSE requests
  /\ UNCHANGED <<cfg, fineVars, keepAliveEvery, mainPc, botVars, watcherRunning, watcherPromise, stats, page,
                 sessionValid, loopPc, result, fetchStatus, pendingErr, stopVars>>

\* the batch is done: mark every scanned entry, return, fold into this.stats
TickReturn ==
  /\ Alive
  /\ loopPc = "submit"
  /\ tick.idx > Len(tick.batch)
  /\ seenKeys' = seenKeys \cup tick.marks
  /\ stats' = FoldResult(stats, TickResult(tick.accepted, tick.tried, tick.errors,
                                           tick.lastAcceptKey))
  /\ tick' = IdleTick
  /\ loopPc' = "sleep"
  /\ events' = {}
  /\ UNCHANGED <<cfg, fineVars, keepAliveEvery, mainPc, botVars, watcherRunning, watcherPromise, page,
                 sessionValid, result, fetchStatus, pendingErr, stopVars, requests>>

\* if (result?.needLogin) await this._ensureAuthenticated()
NeedLogin ==
  /\ Alive
  /\ loopPc = "needLogin"
  /\ \E w \in EnsureAuthenticated(Here) :
       /\ Adopt(w)
       /\ loopPc' = IF w.thrown THEN "catch" ELSE "sleep"
  /\ stats' = FoldResult(stats, result)
  /\ result' = NoResult
  /\ UNCHANGED <<cfg, fineVars, keepAliveEvery, mainPc, ready, keepAliveTimer, watcherRunning, watcherPromise,
                 tick, fetchStatus, pendingErr, stopVars, requests>>

\* catch (err) { lastError = ...; await this._ensureAuthenticated(); }
Catch ==
  /\ Alive
  /\ loopPc = "catch"
  /\ stats' = [stats EXCEPT !.lastError = "error"]
  /\ \E w \in EnsureAuthenticated(Here) :
       /\ Adopt(w)
       /\ pendingErr' = w.thrown
  /\ loopPc' = "sleep"
  /\ tick' = IdleTick
  /\ UNCHANGED <<cfg, fineVars, keepAliveEvery, mainPc, ready, keepAliveTimer, watcherRunning, watcherPromise,
                 result, fetchStatus, stopVars, requests>>

\* finally { lastTick = now; await this._sleep(pollMs + jitter); } and then
\* either the exception of the catch block leaves the loop or the loop goes on
Wake ==
  /\ Alive
  /\ loopPc = "sleep"
  /\ IF pendingErr
       THEN /\ loopPc' = "rejected"
            /\ watcherPromise' = "rejected"
       ELSE /\ loopPc' = "top"
            /\ UNCHANGED watcherPromise
  /\ pendingErr' = FALSE
  /\ fetchStatus' = "none"
  /\ events' = {}
  /\ UNCHANGED <<cfg, fineVars, keepAliveEvery, mainPc, botVars, watcherRunning, stats, page, seenKeys,
                 sessionValid, tick, result, stopVars, requests>>

LoopStep ==
  \/ LoopTop
  \/ Refresh
  \/ SleepNotReady
  \/ TickFetch
  \/ Submit
  \/ TickReturn
  \/ NeedLogin
  \/ Catch
  \/ Wake

\* ---------------------------------------------- signals, cleanup, the portal
\* await this._watcherPromise is over
AwaitOverAtOnce == TRUE

AwaitOver == watcherPromise # "pending"

\* the rest of cleanup() once stopWatcher() has returned: the timer is
\* cleared, page and browser are closed, and the signal handler exits with 0
CleanupRest ==
  /\ watcherPromise' = "null"
  /\ keepAliveTimer' = FALSE
  /\ ready' = FALSE
  /\ isLoggedIn' = FALSE
  /\ mainPc' = "exit0"

\* SIGINT / SIGTERM: cleanup() calls stopWatcher(), which clears the flag and
\* awaits this._watcherPromise; with nothing pending to await it returns at
\* once and cleanup() runs on to the exit
Signal ==
  /\ Alive
  /\ watcherRunning' = FALSE
  /\ IF AwaitOver
       THEN /\ CleanupRest
            /\ UNCHANGED stopAsked
       ELSE /\ stopAsked' = TRUE
            /\ UNCHANGED <<mainPc, botVars, watcherPromise>>
  /\ events' = {}
  /\ UNCHANGED <<cfg, fineVars, keepAliveEvery, stats, page, seenKeys, sessionValid, loopVars, requests>>

\* the awaited loop promise settles: stopWatcher() returns, cleanup() goes on
CleanupFinish ==
  /\ Alive
  /\ stopAsked
  /\ AwaitOver
  /\ CleanupRest
  /\ events' = {}
  /\ UNCHANGED <<cfg, fineVars, keepAliveEvery, watcherRunning, stats, page, seenKeys, sessionValid, loopVars,
                 stopAsked, requests>>

\* the portal ends the session (idle timeout, server restart)
ExpireSession ==
  /\ Alive
  /\ sessionValid
  /\ sessionValid' = FALSE
  /\ events' = {}
  /\ UNCHANGED <<cfg, fineVars, keepAliveEvery, mainPc, botVars, watcherRunning, watcherPromise, stats, page,
                 seenKeys, loopVars, stopVars, requests>>

Next ==
  \/ Initialize
  \/ StartWatcher
  \/ LoopTop
  \/ Refresh
  \/ SleepNotReady
  \/ TickFetch
  \/ Submit
  \/ TickReturn
  \/ NeedLogin
  \/ Catch
  \/ Wake
  \/ Signal
  \/ CleanupFinish
  \/ ExpireSession

Spec == Init /\ [][Next]_vars

\* every page operation and sleep of the loop terminates and the loop's
\* continuation is scheduled
LiveSpec == Init /\ [][Next]_vars /\ WF_vars(LoopStep)

\* ------------------------------------------- the in-page tick, step by step
\* The tick function of the watcher with its requests in flight: the state
\* is that of the running watcher about to evaluate a tick on the listing
\* page, and the ticks of the following iterations come after it.
TickInit ==
  /\ cfg \in [maxPerTick : MaxPerTickValues, hasCredentials : {TRUE},
              keepAliveMin : {DefaultKeepAliveMin}]
  /\ mainPc = "serving"
  /\ ready = TRUE
  /\ isLoggedIn = TRUE
  /\ keepAliveTimer = TRUE
  /\ keepAliveEvery = KeepAliveEvery(cfg.keepAliveMin)
  /\ watcherRunning = TRUE
  /\ watcherPromise = "pending"
  /\ stats = [accepted |-> 0, tried |-> 0, errors |-> 0, lastError |-> "null",
              lastAcceptKey |-> "null"]
  /\ page = PageAt("jobs", FALSE)
  /\ seenKeys = {}
  /\ sessionValid = TRUE
  /\ loopPc = "tick"
  /\ tick = IdleTick
  /\ result = NoResult
  /\ fetchStatus = "none"
  /\ pendingErr = FALSE
  /\ stopAsked = FALSE
  /\ requests = [e \in EntryPool |-> 0]
  /\ events = {}
  /\ scanned = <<>>
  /\ skipped = {}
  /\ loops = <<>>
  /\ promiseLoop = 0
  /\ stops = {}
  /\ probe = FALSE
  /\ inFlight = {}

tickFrame == <<cfg, mainPc, botVars, keepAliveEvery, watcherRunning, watcherPromise,
               page, sessionValid, result, fetchStatus, pendingErr, stopVars, events,
               loops, promiseLoop, stops, probe>>

\* the listing is fetched, parsed and filtered, and the batch is cut
TickBegin ==
  /\ loopPc = "tick"
  /\ \E listing \in ParsedListings :
       LET t == StartTick(listing, seenKeys, cfg.maxPerTick)
       IN /\ stats.tried + Len(t.batch) <= MaxTotal
          /\ tick' = t
          /\ scanned' = listing.entries
  /\ skipped' = {}
  /\ loopPc' = "submit"
  /\ UNCHANGED <<tickFrame, stats, seenKeys, requests, inFlight>>

\* the for loop is suspended at await fetch(action, ...) while the request
\* of its pass is in flight
LoopNeverBlocked == FALSE

LoopBlocked == inFlight # {}

\* a pass of the for loop up to its await: the form and accept control are
\* looked up and the request is sent (a pass without accept control ends at
\* once, counted as an error)
SendAccept ==
  LET pos == tick.idx + Cardinality(inFlight)
  IN /\ loopPc = "submit"
     /\ ~LoopBlocked
     /\ pos <= Len(tick.batch)
     /\ IF Submits(tick.batch[pos].el)
          THEN /\ inFlight' = inFlight \cup {pos}
               /\ requests' = [requests EXCEPT ![tick.batch[pos].el] = @ + 1]
               /\ UNCHANGED <<tick, seenKeys>>
          ELSE /\ tick' = SubmitOne(tick, "notok")
               /\ seenKeys' = seenKeys \cup {tick.batch[pos].key}
               /\ UNCHANGED <<inFlight, requests>>
     /\ UNCHANGED <<tickFrame, stats, loopPc, scanned, skipped>>

\* the request in flight settles: the pass counts it, its finally marks the
\* key seen (the counters of the pass are read by nothing before that)
SettleAccept ==
  /\ loopPc = "submit"
  /\ tick.idx \in inFlight
  /\ \E outcome \in {"ok", "notok", "reject"} : tick' = SubmitOne(tick, outcome)
  /\ seenKeys' = seenKeys \cup {tick.batch[tick.idx].key}
  /\ inFlight' = inFlight \ {tick.idx}
  /\ UNCHANGED <<tickFrame, stats, loopPc, requests, scanned, skipped>>

\* the for loop is over: every entry of the filtered listing is marked, the
\* tick returns and the loop adds its counts to the stats
TickEnd ==
  /\ loopPc = "submit"
  /\ tick.idx + Cardinality(inFlight) > Len(tick.batch)
  /\ ~LoopBlocked
  /\ seenKeys' = seenKeys \cup tick.marks
  /\ stats' = FoldResult(stats, TickResult(tick.accepted, tick.tried, tick.errors,
                                           tick.lastAcceptKey))
  /\ skipped' = tick.marks \ {tick.batch[i].key : i \in 1..Len(tick.batch)}
  /\ tick' = IdleTick
  /\ loopPc' = "sleep"
  /\ UNCHANGED <<tickFrame, requests, scanned, inFlight>>

\* the next iteration: _refreshMeineJobs() soft-refreshes and says ready,
\* the document stays
SoftRefreshed ==
  /\ loopPc = "sleep"
  /\ loopPc' = "tick"
  /\ scanned' = <<>>
  /\ UNCHANGED <<tickFrame, stats, seenKeys, tick, requests, skipped, inFlight>>

\* the next iteration: the soft refresh throws and _refreshMeineJobs()
\* reloads the page, whose new document has no window.__seenKeys
Reloaded ==
  /\ loopPc = "sleep"
  /\ loopPc' = "tick"
  /\ seenKeys' = {}
  /\ scanned' = <<>>
  /\ UNCHANGED <<tickFrame, stats, tick, requests, skipped, inFlight>>

TickNext ==
  \/ TickBegin
  \/ SendAccept
  \/ SettleAccept
  \/ TickEnd
  \/ SoftRefreshed
  \/ Reloaded

TickSpec == TickInit /\ [][TickNext]_vars

\* ------------------------------------- the class through its public methods
\* initialize(), startWatcher() and stopWatcher() called in any order once
\* the page exists, with the loops' page operations and the keep-alive
\* probe as operations that take time.
ApiInit ==
  /\ cfg \in [maxPerTick : {3}, hasCredentials : {TRUE},
              keepAliveMin : KeepAliveMinValues]
  /\ Constructed

apiFrame == <<cfg, mainPc, botVars, keepAliveEvery, stats, page, seenKeys, sessionValid,
              loopVars, stopVars, requests, events, scanned, skipped, inFlight>>

\* the loops that have not returned or thrown
ActiveLoops == {i \in 1..Len(loops) : loops[i].pc # "ended"}

\* startWatcher(): a no-op while the flag is set; else it sets the flag and
\* calls loop(), which runs up to the first await of _refreshMeineJobs()
ApiStartWatcher ==
  /\ mainPc = "initialized"
  /\ IF watcherRunning
       THEN UNCHANGED <<watcherRunning, watcherPromise, loops, promiseLoop>>
       ELSE /\ Len(loops) < MaxLoops
            /\ watcherRunning' = TRUE
            /\ loops' = Append(loops, [pc |-> "page", err |-> FALSE])
            /\ promiseLoop' = Len(loops) + 1
            /\ watcherPromise' = "pending"
  /\ UNCHANGED <<apiFrame, stops, probe>>

\* the try block and, on an exception, the catch block of loop i are over:
\* the loop goes to its sleep; err: the catch block itself threw
ApiIterationDone(i) ==
  /\ loops[i].pc = "page"
  /\ \E e \in BOOLEAN : loops' = [loops EXCEPT ![i] = [pc |-> "sleep", err |-> e]]
  /\ UNCHANGED <<apiFrame, watcherRunning, watcherPromise, promiseLoop, stops, probe>>

\* the sleep of loop i is over: an exception of the catch block leaves the
\* loop; else while (this._watcherRunning) is tested and the loop either
\* returns or starts _refreshMeineJobs() of the next iteration
ApiWake(i) ==
  /\ loops[i].pc = "sleep"
  /\ LET goesOn == ~loops[i].err /\ LoopGoesOn
     IN /\ loops' = [loops EXCEPT ![i] = [pc |-> IF goesOn THEN "page" ELSE "ended",
                                          err |-> FALSE]]
        /\ watcherPromise' = IF goesOn \/ promiseLoop # i THEN watcherPromise
                             ELSE IF loops[i].err THEN "rejected" ELSE "resolved"
  /\ UNCHANGED <<apiFrame, watcherRunning, promiseLoop, stops, probe>>

\* stopWatcher() up to its await: the flag is cleared and the call awaits
\* the promise this._watcherPromise holds at that moment
ApiStopWatcher ==
  /\ mainPc = "initialized"
  /\ promiseLoop \notin stops
  /\ watcherRunning' = FALSE
  /\ stops' = stops \cup {promiseLoop}
  /\ UNCHANGED <<apiFrame, watcherPromise, loops, promiseLoop, probe>>

\* the promise a stopWatcher() call awaits has settled (null settles at
\* once): the call sets this._watcherPromise = null and returns
ApiStopReturn(j) ==
  /\ j \in stops
  /\ IF j = 0 THEN TRUE ELSE loops[j].pc = "ended"
  /\ stops' = stops \ {j}
  /\ promiseLoop' = 0
  /\ watcherPromise' = "null"
  /\ UNCHANGED <<apiFrame, watcherRunning, loops, probe>>

\* the interval of _startKeepAlive fires: the callback starts its
\* page.evaluate (the HEAD request to /intern/meine-daten)
KeepAliveFire ==
  /\ keepAliveTimer
  /\ ~probe
  /\ probe' = TRUE
  /\ UNCHANGED <<apiFrame, watcherRunning, watcherPromise, loops, promiseLoop, stops>>

\* the page.evaluate of the keep-alive callback returns or throws
KeepAliveDone ==
  /\ probe
  /\ probe' = FALSE
  /\ UNCHANGED <<apiFrame, watcherRunning, watcherPromise, loops, promiseLoop, stops>>

ApiNext ==
  \/ Initialize
  \/ ApiStartWatcher
  \/ \E i \in 1..Len(loops) : ApiIterationDone(i)
  \/ \E i \in 1..Len(loops) : ApiWake(i)
  \/ ApiStopWatcher
  \/ \E j \in stops : ApiStopReturn(j)
  \/ KeepAliveFire
  \/ KeepAliveDone

ApiSpec == ApiInit /\ [][ApiNext]_vars

\* ================================================================ claims
\* the first form of the entry (the one querySelector("form") returns) holds
\* a cancel control
FirstFormHasCancel(el) == Len(el.forms) > 0 /\ el.forms[1].cancel

\* el is in the work batch of the current tick
InBatch(el) == \E i \in 1..Len(tick.batch) : tick.batch[i].el = el

\* C1 (as stated): an entry that contains a cancel control, in whatever form
\* of the entry, is never in the submission batch and no request is ever
\* issued for it.
C1_NoEntryWithCancelSubmitted ==
  \A el \in EntryPool : ContainsCancel(el) => (~InBatch(el) /\ requests[el] = 0)

\* C1 (what the guard does ensure): an entry whose first form holds a cancel
\* control is never in the submission batch and no request is ever issued for
\* it, whether or not that form also holds an accept control.
C1_NoFirstFormCancelSubmitted ==
  \A el \in EntryPool : FirstFormHasCancel(el) => (~InBatch(el) /\ requests[el] = 0)

\* C1 (the guard at work): a tick whose listing held an entry with both controls in its
\* form has issued a request (for another entry).
C1_Witness ==
  /\ loopPc = "submit"
  /\ tick.guarded
  /\ tick.idx > 1

\* C2: over the life of the process at most one accept request is issued for
\* any key (all entries that derive the key taken together).
C2_AtMostOneAttemptPerKey ==
  \A e1, e2 \in EntryPool :
    (keyOf(e1) = keyOf(e2)) =>
      requests[e1] + (IF e1 = e2 THEN 0 ELSE requests[e2]) <= 1

\* C3 (as stated): in a tick that attempts submissions, their number does not
\* exceed maxPerTick, whatever value is configured.
C3_TriedWithinMaxPerTick ==
  (loopPc = "submit" /\ tick.tried > 0) => tick.tried <= cfg.maxPerTick

\* C3 (amended): for every configured maxPerTick that is not negative, the
\* number of submissions attempted in one tick never exceeds maxPerTick.
C3_TriedWithinNonNegativeMaxPerTick ==
  (loopPc = "submit" /\ cfg.maxPerTick >= 0) =>
    (tick.tried <= cfg.maxPerTick /\ Len(tick.batch) <= cfg.maxPerTick)

\* C3 witness: with maxPerTick = 1 a tick has attempted its one submission and
\* a scanned entry with an unseen key was left out of the batch.
C3_Witness ==
  /\ loopPc = "submit"
  /\ cfg.maxPerTick = 1
  /\ tick.tried = 1
  /\ \E k \in tick.marks : k \notin seenKeys

\* C4: a key, once in the seen set, is never removed from it.
C4_SeenKeysOnlyGrow == [][seenKeys \subseteq seenKeys']_vars

\* C5: the loop never terminates by an exception while the running flag is
\* still set.
C5_LoopAliveWhileRunning == ~(loopPc = "rejected" /\ watcherRunning)

\* C6: whenever the session is expired while the loop is running, the login
\* flow eventually runs (unless a transport failure intervenes, the watcher is
\* stopped or the loop has ended).
C6_ExpiryLeadsToLogin ==
  (~sessionValid /\ Alive /\ LoopActive /\ watcherRunning)
    ~> \/ "login" \in events
       \/ "fault" \in events
       \/ ~Alive
       \/ ~LoopActive
       \/ ~watcherRunning

\* C7: a tick whose listing fetch returns the login page issues no request,
\* adds no key to the seen set and returns {accepted: 0, tried: 0, errors: 0,
\* needLogin: true}; the loop then calls _ensureAuthenticated() and leaves
\* accepted, tried, errors and lastAcceptKey of the stats as they were.
C7_LoginBounceTick ==
  [][ /\ (loopPc = "tick" /\ fetchStatus' = "login") =>
           /\ loopPc' = "needLogin"
           /\ result'.kind = "needLogin"
           /\ result'.accepted = 0 /\ result'.tried = 0 /\ result'.errors = 0
           /\ requests' = requests
           /\ seenKeys' = seenKeys
           /\ stats' = stats
      /\ (loopPc = "needLogin" /\ loopPc' # "needLogin") =>
           /\ \E w \in EnsureAuthenticated(Here) :
                /\ page' = w.page
                /\ sessionValid' = w.valid
                /\ events' = w.events
                /\ loopPc' = IF w.thrown THEN "catch" ELSE "sleep"
           /\ requests' = requests
           /\ seenKeys' \subseteq seenKeys
           /\ stats'.accepted = stats.accepted
           /\ stats'.tried = stats.tried
           /\ stats'.errors = stats.errors
           /\ stats'.lastAcceptKey = stats.lastAcceptKey
    ]_vars

\* C7 witness: a login-bounce tick was handled and the loop is in its sleep.
C7_Witness == loopPc = "sleep" /\ fetchStatus = "login"

\* C8: a tick whose listing fetch fails, by a status that is not ok or by a
\* transport error, adds one to errorsTotal (when the failed fetch returns,
\* or in the catch block that handles its exception) and issues no request.
C8_FetchFailuresCounted ==
  [][ /\ (loopPc = "tick" /\ fetchStatus' = "badstatus") =>
           (stats'.errors = stats.errors + 1 /\ requests' = requests)
      /\ (loopPc = "catch" /\ fetchStatus = "neterr" /\ loopPc' = "sleep") =>
           (stats'.errors = stats.errors + 1 /\ requests' = requests)
    ]_vars

\* C9: acceptedTotal, triedTotal and errorsTotal never decrease.
C9_StatsMonotone ==
  [][ /\ stats'.accepted >= stats.accepted
      /\ stats'.tried >= stats.tried
      /\ stats'.errors >= stats.errors ]_vars

\* C9 witness: ticks of each kind have been folded: an accepted entry, a
\* counted error and a caught exception.
C9_Witness ==
  /\ stats.accepted > 0
  /\ stats.errors > 0
  /\ stats.lastError = "error"

\* an upper bound on the steps the loop still takes before it is back at the
\* top of an iteration
StepsToTop ==
  CASE loopPc = "refresh" -> 6 + MaxEntries
    [] loopPc = "tick" -> 5 + MaxEntries
    [] loopPc = "submit" -> 5 + Len(tick.batch) - tick.idx
    [] loopPc = "needLogin" -> 4
    [] loopPc = "catch" -> 3
    [] loopPc = "sleepNotReady" -> 3
    [] loopPc = "sleep" -> 2
    [] loopPc = "top" -> 1
    [] OTHER -> 0

\* C10: once stopWatcher() was called with the loop running, the loop starts
\* no new iteration; the iteration in flight runs on (each of its steps can be
\* taken and brings the loop nearer to the top, so it ends when its page
\* operations and sleeps return); the loop ends only at the top of the loop
\* or by the exception of its iteration; and stopWatcher() returns, so that
\* cleanup() goes on to the exit, only after the loop has ended.
C10_CooperativeStop ==
  /\ [][ stopAsked =>
           /\ (loopPc = "top" => loopPc' \in {"top", "exited"})
           /\ (LoopActive /\ ~LoopActive' => (loopPc = "top" \/ loopPc = "sleep"))
           /\ (<<loopPc, tick>>' # <<loopPc, tick>> => StepsToTop' < StepsToTop)
       ]_vars
  /\ [](stopAsked /\ Alive /\ LoopActive => ENABLED LoopStep)
  /\ [](mainPc = "exit0" => ~LoopActive)

\* C10 (supplement): under the fairness of LiveSpec the loop does end once
\* stopWatcher() was called with the loop running.
C10_LoopEnds == (stopAsked /\ LoopActive) ~> ~LoopActive

\* C10 witness: stopWatcher() was called with the loop running, the loop has
\* exited and cleanup() has run to the exit.
C10_Witness == stopAsked /\ loopPc = "exited" /\ mainPc = "exit0"

\* C14: once a login page was detected (by the tick's login-bounce check
\* followed by _ensureAuthenticated, or by the _ensureAuthenticated of the
\* catch block) and the re-login failed, isLoggedIn is false.
C14_LoginPageInvalidatesSession ==
  (Alive /\ (loopPc = "rejected" \/ (loopPc = "catch" /\ fetchStatus = "login")))
    => ~isLoggedIn

\* C16: a failed initialize() (credentials missing, login failed, listing not
\* opened) ends the process with code 1 with ready never set and neither the
\* keep-alive timer nor the watcher loop started; ready is set only by the
\* initialize() that has a valid session and is off the login page.
C16_StartupFailureIsFatal ==
  /\ [](mainPc = "exit1" =>
          /\ ~ready
          /\ ~keepAliveTimer /\ keepAliveEvery = 0
          /\ loopPc = "none" /\ ~watcherRunning /\ watcherPromise = "null")
  /\ [](~cfg.hasCredentials => (~ready /\ mainPc \in {"boot", "exit0", "exit1"}))
  /\ [][ /\ (mainPc = "boot" /\ mainPc' = "exit1") => ~ready'
         /\ (~ready /\ ready') =>
              /\ mainPc = "boot" /\ mainPc' = "initialized"
              /\ sessionValid' /\ page'.url \in {"daten", "jobs"}
              /\ keepAliveTimer'
       ]_vars

\* C16 witness: initialize() failed although the credentials were given.
C16_Witness == mainPc = "exit1" /\ cfg.hasCredentials /\ page.url = "login"

\* C17: in a tick that reaches the submit loop every pass adds one to tried
\* and one to exactly one of accepted (the response was ok, and lastAcceptKey
\* becomes the entry's key) and errors, and marks the entry's key seen; so
\* accepted + errors = tried, and at the end tried is the size of the batch
\* and the counts are added to the stats.
C17_TickAccounting ==
  /\ [](loopPc = "submit" =>
          /\ tick.tried = tick.idx - 1
          /\ tick.tried <= Len(tick.batch)
          /\ tick.accepted + tick.errors = tick.tried)
  /\ [][ /\ (loopPc = "submit" /\ tick'.idx = tick.idx + 1) =>
              LET item == tick.batch[tick.idx]
              IN /\ item.key \in seenKeys'
                 /\ tick'.tried = tick.tried + 1
                 /\ \/ /\ tick'.accepted = tick.accepted + 1
                       /\ tick'.errors = tick.errors
                       /\ tick'.lastAcceptKey = item.key
                       /\ requests'[item.el] = requests[item.el] + 1
                    \/ /\ tick'.accepted = tick.accepted
                       /\ tick'.errors = tick.errors + 1
                       /\ tick'.lastAcceptKey = tick.lastAcceptKey
         /\ (loopPc = "submit" /\ loopPc' = "sleep") =>
              /\ tick.tried = Len(tick.batch)
              /\ stats'.tried = stats.tried + tick.tried
              /\ stats'.accepted = stats.accepted + tick.accepted
              /\ stats'.errors = stats.errors + tick.errors
       ]_vars

\* C17 witness: a tick is through a batch of two, one accepted and one failed.
C17_Witness ==
  /\ loopPc = "submit"
  /\ tick.idx > Len(tick.batch)
  /\ tick.accepted = 1
  /\ tick.errors = 1

\* C20: an iteration whose _refreshMeineJobs() returned false issues no
\* request, runs no tick (so no login-bounce check), leaves accepted, tried,
\* errors, lastAcceptKey and the seen set as they were, and goes to its sleep
\* without raising.
C20_NotReadyIterationIsInert ==
  [][ ((loopPc = "refresh" /\ loopPc' = "sleepNotReady")
        \/ (loopPc = "sleepNotReady" /\ loopPc' # "sleepNotReady")) =>
        /\ loopPc' \in {"sleepNotReady", "sleep"}
        /\ ~pendingErr'
        /\ requests' = requests
        /\ stats' = stats
        /\ seenKeys' = seenKeys
    ]_vars

\* C12: at most one accept request is in flight at any moment; a request is
\* sent only when none is in flight, and it is the one for the batch entry
\* after the last settled one.
C12_OneSubmissionAtATime ==
  /\ [](Cardinality(inFlight) <= 1 /\ inFlight \subseteq {tick.idx})
  /\ [][inFlight' # inFlight =>
          \/ (inFlight = {} /\ inFlight' = {tick.idx})
          \/ (inFlight = {tick.idx} /\ inFlight' = {} /\ tick'.idx = tick.idx + 1)
       ]_vars

\* C12 witness: the second request of a batch is in flight, the first settled.
C12_Witness == inFlight = {2} /\ tick.tried = 1

\* C15: when a tick that reached the submit loop ends, the non-empty key of
\* every entry of its filtered snapshot is in the seen set, and the next
\* tick has none of the keys the tick marked without attempting in its batch
\* (stated for a positive maxPerTick, where the batch is cut from the front).
C15_MarkAllScanned ==
  [][ /\ (loopPc = "submit" /\ loopPc' = "sleep") =>
           \A i \in 1..Len(scanned) :
             keyOf(scanned[i]) # "" => keyOf(scanned[i]) \in seenKeys'
      /\ (loopPc = "tick" /\ loopPc' = "submit" /\ cfg.maxPerTick > 0) =>
           \A i \in 1..Len(tick'.batch) : tick'.batch[i].key \notin skipped
    ]_vars

\* C18: an entry whose key is empty is never in the batch, never has a
\* request in flight or issued, and the empty key is never in the seen set.
C18_EmptyKeyNotActionable ==
  /\ "" \notin seenKeys
  /\ "" \notin tick.marks
  /\ \A i \in 1..Len(tick.batch) : tick.batch[i].key # ""
  /\ \A el \in EntryPool : keyOf(el) = "" => (~InBatch(el) /\ requests[el] = 0)

\* C18 witness: a tick whose filtered snapshot held an entry with the empty
\* key next to one it submitted has ended.
C18_Witness ==
  /\ loopPc = "sleep"
  /\ \E i \in 1..Len(scanned) : keyOf(scanned[i]) = ""
  /\ stats.tried > 0

\* C11: the keep-alive probe and a page operation of a watcher loop are
\* never in flight at the same time.
C11_PageAccessSerialized ==
  ~(probe /\ \E i \in 1..Len(loops) : loops[i].pc = "page")

\* C13: the keep-alive interval is set with a period of max(2, keepAliveMin)
\* minutes, whatever integer keepAliveMin is configured.
C13_KeepAlivePeriod ==
  keepAliveTimer => keepAliveEvery = Max(2, cfg.keepAliveMin) * 60 * 1000

\* C19: at most one watcher loop is active at any time, and a loop awaited
\* by a stopWatcher() call in progress is the only active loop.
C19_SingleWatcherLoop ==
  /\ Cardinality(ActiveLoops) <= 1
  /\ \A j \in stops \ {0} : \A i \in ActiveLoops : i = j

====
